---- MODULE Spec2Model ----
(***************************************************************************)
(* AiTerm (src/main.py, class AITerminal): a Tk terminal pane fed by a pty *)
(* reader thread, and an assistant pane that proposes shell commands the   *)
(* user confirms or cancels.  Text is modelled as sequences of one-        *)
(* character strings; control characters that TLA+ cannot write in a       *)
(* string literal carry names (ESC, BS, DEL, BEL).                         *)
(***************************************************************************)
EXTENDS Integers, Sequences, FiniteSets, TLC

\* ------------------------------------------------------------------ bounds
MaxAsk == 2
MaxReads == 2
MaxStream == 3
MaxKeys == 2

\* ------------------------------------------------------- program constants
HistTail == 20
HistMax == 100
HistKeep == 50

\* -------------------------------------------------------------- characters
ESC == "<ESC>"
BS == "<BS>"
DEL == "<DEL>"
BEL == "<BEL>"
CR == "\r"
LF == "\n"

\* Python's optional values: None is the empty tuple, a value v is <<v>>.
None == <<>>
Some(v) == <<v>>

\* Python truthiness of an optional string: neither None nor "".
Truthy(opt) == opt # None /\ opt[1] # <<>>

Last(s) == s[Len(s)]

\* s[:n], the wrong end of the list
Head_n(s, n) == IF Len(s) <= n THEN s ELSE SubSeq(s, 1, n)

\* s[-n:] of Python for n > 0.
Tail_n(s, n) == IF Len(s) <= n THEN s ELSE SubSeq(s, Len(s) - n + 1, Len(s))

RECURSIVE Join(_)
\* ''.join(list)
Join(list) == IF list = <<>> THEN <<>> ELSE Head(list) \o Join(Tail(list))

\* str.strip(): whitespace removed at both ends
IsSpace(c) == c \in {" ", "\t", LF, CR}

RECURSIVE LStrip(_)
LStrip(s) == IF s # <<>> /\ IsSpace(Head(s)) THEN LStrip(Tail(s)) ELSE s

RECURSIVE RStrip(_)
RStrip(s) == IF s # <<>> /\ IsSpace(Last(s)) THEN RStrip(SubSeq(s, 1, Len(s) - 1)) ELSE s

Strip(s) == RStrip(LStrip(s))

\* str.lower() on the letters the model uses
Lower(s) ==
    [i \in 1..Len(s) |->
        CASE s[i] = "E" -> "e" [] s[i] = "R" -> "r" [] s[i] = "O" -> "o"
          [] s[i] = "J" -> "j" [] s[i] = "H" -> "h" [] s[i] = "X" -> "x"
          [] OTHER -> s[i]]

\* needle in hay (substring test of Python's `in`)
Contains(hay, needle) ==
    \E i \in 0..(Len(hay) - Len(needle)) :
        SubSeq(hay, i + 1, i + Len(needle)) = needle

\* data.replace('\n', '\r\n')
RECURSIVE ReplaceLF(_)
ReplaceLF(s) ==
    IF s = <<>> THEN <<>>
    ELSE (IF Head(s) = LF THEN <<CR, LF>> ELSE <<Head(s)>>) \o ReplaceLF(Tail(s))

\* ------------------------------------------------------------------- state
VARIABLES
    groq_client,        \* self.groq_client is not None
    is_windows,         \* self.is_windows
    process,            \* self.process: "None", or a PtyProcess whose child is "running" / "exited"
    pty_feed,           \* what the child will still print, one element per read()
    pty_in,             \* what process.write() has been given so far
    pending_command,    \* self.pending_command (optional string)
    last_command,       \* self.last_command
    output_buffer,      \* self.output_buffer
    output_queue,       \* self.output_queue
    terminal_display,   \* text of self.terminal_display without Tk's final newline
    command_history,    \* self.command_history
    history_index,      \* self.history_index
    frames,             \* confirm_frame widgets that exist, each with the command it shows
    suggest_threads,    \* get_command_suggestion threads whose backend call has not returned
    ts_threads,         \* troubleshoot_error threads whose backend call has not returned
    after_queue,        \* callbacks handed to the main loop with root.after(0, ...)
    main_pc,            \* where the main thread stands inside execute_pending_command
    r_pc,               \* where the reader thread stands in read_terminal_output
    r_output,           \* the reader's local `output`
    r_error_output,     \* detect_error's local `error_output`
    r_slice,            \* the value of self.output_buffer[-50:] before it is stored
    n_reads,            \* number of process.read() calls that returned a chunk
    next_req,           \* number of accepted ask_ai calls; names each request
    analysis_log,       \* every AnalysisRequest emitted so far, oldest first
    drain_timer,        \* a root.after(..., self.update_terminal_display) timer is pending
    error_boxes,        \* number of "Terminal Error" message boxes shown
    ai_chat             \* the tag of the last message add_ai_message put in self.ai_chat

vars == <<groq_client, is_windows, process, pty_feed, pty_in, pending_command,
          last_command, output_buffer, output_queue, terminal_display,
          command_history, history_index, frames, suggest_threads, ts_threads,
          after_queue, main_pc, r_pc, r_output, r_error_output, r_slice, n_reads,
          next_req, analysis_log, drain_timer, error_boxes, ai_chat>>

\* ------------------------------------------------------------------ inputs
\* what the pty prints in the workflow specification
ChunkOk == <<"o", "k">>
ChunkErr == <<"E", "r", "r", "o", "r">>
Chunks == {ChunkOk, ChunkErr}

\* what the entry widget holds when Ask AI is pressed
EntryTexts == { <<>>, <<" ">>, <<"q">>, <<" ", "r">> }

\* what the backend answers to a suggestion request
Replies == { <<"l", "s">>, <<" ">>, <<"a", LF, "b", " ">> }

RECURSIVE SeqsUpTo(_, _)
\* all sequences over S of length at most n
SeqsUpTo(S, n) ==
    IF n = 0 THEN {<<>>}
    ELSE LET shorter == SeqsUpTo(S, n - 1)
         IN shorter \cup {Append(s, x) : s \in shorter, x \in S}

\* add_ai_message(message, tag) once per element of msgs: the last tag shown
add_ai_message(msgs) == IF msgs = <<>> THEN ai_chat ELSE Last(msgs)

\* ------------------------------------------------------------ construction
\* __init__ then start_terminal: no shell when the pty library is missing or
\* PtyProcess.spawn raised; then no reader thread runs.
InitCommon ==
    /\ groq_client \in BOOLEAN
    /\ is_windows \in BOOLEAN
    /\ process \in {"None", "running"}
    /\ drain_timer = (process = "running")
    /\ error_boxes \in (IF process = "None" THEN {0, 1} ELSE {0})
    /\ pty_in = <<>>
    /\ pending_command = None
    /\ last_command = <<>>
    /\ output_buffer = <<>>
    /\ output_queue = <<>>
    /\ terminal_display = <<>>
    /\ command_history = <<>>
    /\ history_index = -1
    /\ frames = {}
    /\ suggest_threads = {}
    /\ ts_threads = {}
    /\ after_queue = <<>>
    /\ main_pc = "idle"
    /\ r_pc = IF process = "None" THEN "none" ELSE "read"
    /\ r_output = <<>>
    /\ r_error_output = <<>>
    /\ r_slice = <<>>
    /\ n_reads = 0
    /\ next_req = 0
    /\ analysis_log = <<>>
    /\ ai_chat = "welcome"

\* ------------------------------------------------------------ frame groups
envVars == <<is_windows, process, pty_feed, drain_timer, error_boxes>>
readerVars == <<r_pc, r_output, r_error_output, r_slice, n_reads>>
displayVars == <<output_queue, terminal_display>>
histVars == <<command_history, history_index>>
errVars == <<last_command, output_buffer, ts_threads, analysis_log>>
askVars == <<suggest_threads, next_req>>
propVars == <<pending_command, frames>>

Callback(fn, cmd, req) == [fn |-> fn, cmd |-> cmd, req |-> req]

\* ------------------------------------------------------ assistant workflow
\* history_up with the bound of line 552 off by one
history_up_PastOldest ==
    /\ main_pc = "idle"
    /\ command_history # <<>>
    /\ history_index < Len(command_history)
    /\ history_index' = history_index + 1
    /\ UNCHANGED ai_chat
    /\ UNCHANGED <<groq_client, envVars, pty_in, propVars, errVars, displayVars,
                   command_history, askVars, after_queue, main_pc, readerVars>>

\* history_up(event), lines 550-556: the Up key in the entry; the entry then
\* shows command_history[-(history_index + 1)]
history_up ==
    /\ main_pc = "idle"
    /\ command_history # <<>>
    /\ history_index < Len(command_history) - 1
    /\ history_index' = history_index + 1
    /\ UNCHANGED ai_chat
    /\ UNCHANGED <<groq_client, envVars, pty_in, propVars, errVars, displayVars,
                   command_history, askVars, after_queue, main_pc, readerVars>>

\* history_down(event), lines 558-567: the Down key in the entry
history_down ==
    /\ main_pc = "idle"
    /\ history_index >= 0
    /\ history_index' = IF history_index > 0 THEN history_index - 1 ELSE -1
    /\ UNCHANGED ai_chat
    /\ UNCHANGED <<groq_client, envVars, pty_in, propVars, errVars, displayVars,
                   command_history, askVars, after_queue, main_pc, readerVars>>

\* an ask_ai without the test of self.groq_client (line 866)
ask_ai_NoClientTest(text) ==
    /\ main_pc = "idle"
    /\ LET query == Strip(text) IN
       IF query = <<>> THEN
            /\ UNCHANGED ai_chat
            /\ UNCHANGED <<histVars, askVars>>
       ELSE
            /\ next_req < MaxAsk
            /\ command_history' =
                  IF command_history = <<>> \/ Last(command_history) # query
                  THEN Append(command_history, query) ELSE command_history
            /\ history_index' = -1
            /\ suggest_threads' = suggest_threads \cup {[req |-> next_req + 1, query |-> query]}
            /\ next_req' = next_req + 1
            /\ ai_chat' = add_ai_message(<<"user", "thinking">>)
    /\ UNCHANGED <<groq_client, envVars, pty_in, propVars, errVars, displayVars,
                   after_queue, main_pc, readerVars>>

\* ask_ai: the Ask AI button or Return in the entry, whose content is `text`.
ask_ai(text) ==
    /\ main_pc = "idle"
    /\ LET query == Strip(text) IN
       IF query = <<>> THEN
            /\ UNCHANGED ai_chat
            /\ UNCHANGED <<histVars, askVars>>
       ELSE IF ~groq_client THEN
            /\ UNCHANGED ai_chat
            /\ UNCHANGED <<histVars, askVars>>
       ELSE
            /\ next_req < MaxAsk
            /\ command_history' =
                  IF command_history = <<>> \/ Last(command_history) # query
                  THEN Append(command_history, query) ELSE command_history
            /\ history_index' = -1
            /\ suggest_threads' = suggest_threads \cup {[req |-> next_req + 1, query |-> query]}
            /\ next_req' = next_req + 1
            /\ ai_chat' = add_ai_message(<<"user", "thinking">>)
    /\ UNCHANGED <<groq_client, envVars, pty_in, propVars, errVars, displayVars,
                   after_queue, main_pc, readerVars>>

\* a suggestion thread that assigns the proposal itself
suggestion_returns_Direct(t, reply) ==
    /\ t \in suggest_threads
    /\ groq_client
    /\ suggest_threads' = suggest_threads \ {t}
    /\ pending_command' = Some(Strip(reply))
    /\ UNCHANGED ai_chat
    /\ UNCHANGED <<groq_client, envVars, pty_in, frames, errVars, displayVars,
                   histVars, next_req, main_pc, readerVars, after_queue>>

\* get_command_suggestion, lines 903-916: the backend call of thread t returns
\* `reply`; the thread hands show_command_suggestion to the main loop.
suggestion_returns(t, reply) ==
    /\ t \in suggest_threads
    /\ groq_client
    /\ suggest_threads' = suggest_threads \ {t}
    /\ after_queue' = Append(after_queue,
                             Callback("show_command_suggestion", Strip(reply), t.req))
    /\ UNCHANGED ai_chat
    /\ UNCHANGED <<groq_client, envVars, pty_in, propVars, errVars, displayVars,
                   histVars, next_req, main_pc, readerVars>>

\* a suggestion thread that calls the backend a second time after a failure
suggestion_fails_Retries(t) ==
    /\ t \in suggest_threads
    /\ IF t.req > 0
       THEN /\ suggest_threads' = (suggest_threads \ {t}) \cup {[req |-> 0 - t.req, query |-> t.query]}
            /\ after_queue' = after_queue
       ELSE /\ suggest_threads' = suggest_threads \ {t}
            /\ after_queue' = Append(after_queue, Callback("suggestion_error", <<>>, 0 - t.req))
    /\ UNCHANGED ai_chat
    /\ UNCHANGED <<groq_client, envVars, pty_in, propVars, errVars, displayVars,
                   histVars, next_req, main_pc, readerVars>>

\* get_command_suggestion, lines 918-920: the backend call of thread t raises
\* (also when self.groq_client has become None).
suggestion_fails(t) ==
    /\ t \in suggest_threads
    /\ suggest_threads' = suggest_threads \ {t}
    /\ after_queue' = Append(after_queue, Callback("suggestion_error", <<>>, t.req))
    /\ UNCHANGED ai_chat
    /\ UNCHANGED <<groq_client, envVars, pty_in, propVars, errVars, displayVars,
                   histVars, next_req, main_pc, readerVars>>

\* the main loop runs the oldest callback only between handlers
NextCallback(fn) ==
    /\ main_pc = "idle"
    /\ after_queue # <<>>
    /\ Head(after_queue).fn = fn

\* show_command_suggestion(command), run by the main loop
show_command_suggestion ==
    /\ NextCallback("show_command_suggestion")
    /\ LET cb == Head(after_queue) IN
        /\ pending_command' = Some(cb.cmd)
            /\ frames' = frames \cup {[id |-> cb.req, command |-> cb.cmd]}
        /\ ai_chat' = add_ai_message(<<"suggestion", "command">>)
    /\ after_queue' = Tail(after_queue)
    /\ UNCHANGED <<groq_client, envVars, pty_in, errVars, displayVars, histVars,
                   askVars, main_pc, readerVars>>

\* the lambda of line 919, run by the main loop: add_ai_message("Error: ...")
suggestion_error_shown ==
    /\ NextCallback("suggestion_error")
    /\ ai_chat' = add_ai_message(<<"suggestion_error">>)
    /\ after_queue' = Tail(after_queue)
    /\ UNCHANGED <<groq_client, envVars, pty_in, propVars, errVars, displayVars,
                   histVars, askVars, main_pc, readerVars>>

\* a guard that tests `is not None` instead of truthiness
ExecuteGuard_NotNone == pending_command # None

\* line 1005
ExecuteGuard == Truthy(pending_command)

\* process.write(data) raises when the child has exited
WriteRaises == process = "exited"

\* write_to_terminal without the Windows line-ending translation
write_to_terminal_Raw(data) ==
    IF process = "None" \/ WriteRaises THEN pty_in ELSE Append(pty_in, data)

\* write_to_terminal without the test of self.process
write_to_terminal_NoGuard(data) ==
    IF WriteRaises THEN pty_in
    ELSE Append(pty_in, IF is_windows THEN ReplaceLF(data) ELSE data)

\* write_to_terminal(data): what process.write() has been given afterwards
write_to_terminal(data) ==
    IF process = "None" \/ WriteRaises THEN pty_in
    ELSE Append(pty_in, IF is_windows THEN ReplaceLF(data) ELSE data)

\* execute_pending_command(frame), lines 1005-1009: the Execute button of
\* `frame` is pressed
execute_pending_command(frame) ==
    /\ main_pc = "idle"
    /\ frame \in frames
    /\ IF ExecuteGuard THEN
            /\ frames' = frames \ {frame}
            /\ last_command' = pending_command[1]
            /\ main_pc' = "execute"
            /\ ai_chat' = add_ai_message(<<"executed">>)
       ELSE
            /\ UNCHANGED ai_chat
            /\ UNCHANGED <<frames, last_command, main_pc>>
    /\ UNCHANGED <<groq_client, envVars, pty_in, pending_command,
                   output_buffer, ts_threads, analysis_log, displayVars, histVars, askVars,
                   after_queue, readerVars>>

\* execute_pending_command, lines 1010-1019
execute_write ==
    /\ main_pc = "execute"
    /\ output_buffer' = <<>>
    /\ pty_in' = write_to_terminal(pending_command[1] \o <<LF>>)
    /\ pending_command' = None
    /\ main_pc' = "idle"
    /\ UNCHANGED ai_chat
    /\ UNCHANGED <<groq_client, envVars, frames, last_command, ts_threads, analysis_log,
                   displayVars, histVars, askVars, after_queue, readerVars>>

\* the keys of the terminal pane the model presses
Keys == {"BackSpace", "Return", "Tab", "Up", "a"}

\* handle_key_press, lines 796-835: what the key asks to write
KeyData(key) ==
    CASE key = "BackSpace" -> (IF is_windows THEN <<BS>> ELSE <<DEL>>)
      [] key = "Return" -> <<LF>>
      [] key = "Tab" -> <<"\t">>
      [] key = "Up" -> <<ESC, "[", "A">>
      [] OTHER -> <<key>>

\* handle_key_press(event): a key pressed in the terminal pane; a write that
\* raises ends the handler and changes nothing
handle_key_press(key) ==
    /\ main_pc = "idle"
    /\ Len(pty_in) < MaxKeys
    /\ pty_in' = write_to_terminal(KeyData(key))
    /\ UNCHANGED ai_chat
    /\ UNCHANGED <<groq_client, envVars, propVars, errVars, displayVars, histVars,
                   askVars, after_queue, main_pc, readerVars>>

\* a cancel that also resets the history window, as the confirm does
cancel_pending_command_Reset(frame) ==
    /\ main_pc = "idle"
    /\ frame \in frames
    /\ frames' = frames \ {frame}
    /\ pending_command' = None
    /\ output_buffer' = <<>>
    /\ ai_chat' = add_ai_message(<<"cancelled">>)
    /\ UNCHANGED <<groq_client, envVars, pty_in, last_command, ts_threads, analysis_log,
                   displayVars, histVars, askVars, after_queue, main_pc, readerVars>>

\* a cancel that destroys the controls and keeps the proposal pending
cancel_pending_command_Keeps(frame) ==
    /\ main_pc = "idle"
    /\ frame \in frames
    /\ frames' = frames \ {frame}
    /\ pending_command' = pending_command
    /\ ai_chat' = add_ai_message(<<"cancelled">>)
    /\ UNCHANGED <<groq_client, envVars, pty_in, errVars, displayVars, histVars,
                   askVars, after_queue, main_pc, readerVars>>

\* cancel_pending_command(frame): the Cancel button of `frame` is pressed
cancel_pending_command(frame) ==
    /\ main_pc = "idle"
    /\ frame \in frames
    /\ frames' = frames \ {frame}
    /\ pending_command' = None
    /\ ai_chat' = add_ai_message(<<"cancelled">>)
    /\ UNCHANGED <<groq_client, envVars, pty_in, errVars, displayVars, histVars,
                   askVars, after_queue, main_pc, readerVars>>

\* update_api_key(new_key) from the settings dialog: Groq(api_key=...) returns
\* a client (ok) or raises
update_api_key(ok) ==
    /\ main_pc = "idle"
    /\ groq_client' = ok
    /\ ai_chat' = add_ai_message(IF ok THEN <<"key_updated">> ELSE <<"key_failed">>)
    /\ UNCHANGED <<envVars, pty_in, propVars, errVars, displayVars, histVars,
                   askVars, after_queue, main_pc, readerVars>>

\* ------------------------------------------------------------ reader thread
\* the literals of lines 740-741
ErrorKeywords ==
    { <<"c", "o", "m", "m", "a", "n", "d", " ", "n", "o", "t", " ", "f", "o", "u", "n", "d">>,
      <<"n", "o", " ", "s", "u", "c", "h", " ", "f", "i", "l", "e">>,
      <<"p", "e", "r", "m", "i", "s", "s", "i", "o", "n", " ", "d", "e", "n", "i", "e", "d">>,
      <<"e", "r", "r", "o", "r">>,
      <<"c", "a", "n", "n", "o", "t">> }

\* the keyword test without output.lower()
KeywordHit_CaseSensitive(output) == \E k \in ErrorKeywords : Contains(output, k)

\* line 740, right operand: any(error in output.lower() for error in [...])
KeywordHit(output) == \E k \in ErrorKeywords : Contains(Lower(output), k)

\* line 731
HasClear(output) ==
    \/ Contains(output, <<ESC, "[", "2", "J">>)
    \/ Contains(output, <<ESC, "[", "H", ESC, "[", "2", "J">>)
    \/ Contains(output, <<ESC, "[", "3", "J">>)

\* line 729: process.read() returns the next chunk
reader_read ==
    /\ r_pc = "read"
    /\ pty_feed # <<>>
    /\ r_output' = Head(pty_feed)
    /\ pty_feed' = Tail(pty_feed)
    /\ n_reads' = n_reads + 1
    /\ r_pc' = "publish"
    /\ UNCHANGED ai_chat
    /\ UNCHANGED <<groq_client, is_windows, process, drain_timer, error_boxes, pty_in, propVars, errVars,
                   displayVars, histVars, askVars, after_queue, main_pc,
                   r_error_output, r_slice>>

\* a reader that takes the end of stream for an empty chunk and goes on
reader_eof_Continues ==
    /\ r_pc = "read"
    /\ pty_feed = <<>>
    /\ process = "exited"
    /\ r_output' = <<>>
    /\ r_pc' = "publish"
    /\ UNCHANGED ai_chat
    /\ UNCHANGED <<groq_client, envVars, pty_in, propVars, errVars, displayVars,
                   histVars, askVars, after_queue, main_pc,
                   r_error_output, r_slice, n_reads>>

\* lines 729, 743-744: process.read() raises EOFError, the loop breaks
reader_eof ==
    /\ r_pc = "read"
    /\ pty_feed = <<>>
    /\ process = "exited"
    /\ r_pc' = "done"
    /\ UNCHANGED ai_chat
    /\ UNCHANGED <<groq_client, envVars, pty_in, propVars, errVars, displayVars,
                   histVars, askVars, after_queue, main_pc, r_output,
                   r_error_output, r_slice, n_reads>>

\* lines 731-734
reader_publish ==
    /\ r_pc = "publish"
    /\ after_queue' = IF HasClear(r_output)
                      THEN Append(after_queue, Callback("clear_terminal_screen", <<>>, 0))
                      ELSE after_queue
    /\ output_queue' = Append(output_queue, r_output)
    /\ r_pc' = "append"
    /\ UNCHANGED ai_chat
    /\ UNCHANGED <<groq_client, envVars, pty_in, propVars, errVars, terminal_display,
                   histVars, askVars, main_pc, r_output, r_error_output, r_slice,
                   n_reads>>

\* line 735
reader_append ==
    /\ r_pc = "append"
    /\ output_buffer' = Append(output_buffer, r_output)
    /\ r_pc' = "trim"
    /\ UNCHANGED ai_chat
    /\ UNCHANGED <<groq_client, envVars, pty_in, propVars, last_command, ts_threads, analysis_log,
                   displayVars, histVars, askVars, after_queue, main_pc, r_output,
                   r_error_output, r_slice, n_reads>>

\* a reader that never finds the window too long
reader_trim_check_Never ==
    /\ r_pc = "trim"
    /\ r_pc' = "test"
    /\ UNCHANGED ai_chat
    /\ UNCHANGED <<groq_client, envVars, pty_in, propVars, errVars, displayVars,
                   histVars, askVars, after_queue, main_pc, r_output,
                   r_error_output, r_slice, n_reads>>

\* line 737
reader_trim_check ==
    /\ r_pc = "trim"
    /\ r_pc' = IF Len(output_buffer) > HistMax THEN "slice" ELSE "test"
    /\ UNCHANGED ai_chat
    /\ UNCHANGED <<groq_client, envVars, pty_in, propVars, errVars, displayVars,
                   histVars, askVars, after_queue, main_pc, r_output,
                   r_error_output, r_slice, n_reads>>

\* line 738, right-hand side
reader_trim_slice ==
    /\ r_pc = "slice"
    /\ r_slice' = Tail_n(output_buffer, HistKeep)
    /\ r_pc' = "store"
    /\ UNCHANGED ai_chat
    /\ UNCHANGED <<groq_client, envVars, pty_in, propVars, errVars, displayVars,
                   histVars, askVars, after_queue, main_pc, r_output,
                   r_error_output, n_reads>>

\* line 738, assignment
reader_trim_store ==
    /\ r_pc = "store"
    /\ output_buffer' = r_slice
    /\ r_slice' = <<>>
    /\ r_pc' = "test"
    /\ UNCHANGED ai_chat
    /\ UNCHANGED <<groq_client, envVars, pty_in, propVars, last_command, ts_threads, analysis_log,
                   displayVars, histVars, askVars, after_queue, main_pc, r_output,
                   r_error_output, n_reads>>

\* line 740: the condition under which detect_error is called
ErrorTest == last_command # <<>> /\ KeywordHit(r_output)

\* lines 740-742
reader_test ==
    /\ r_pc = "test"
    /\ r_pc' = IF ErrorTest THEN "detect" ELSE "read"
    /\ UNCHANGED ai_chat
    /\ UNCHANGED <<groq_client, envVars, pty_in, propVars, errVars, displayVars,
                   histVars, askVars, after_queue, main_pc, r_output,
                   r_error_output, r_slice, n_reads>>

\* line 1030: detect_error returns at once
DetectReturns == last_command = <<>> \/ ~groq_client

\* detect_error, lines 1030-1037
detect_error ==
    /\ r_pc = "detect"
    /\ IF DetectReturns THEN
            /\ r_pc' = "read"
            /\ UNCHANGED ai_chat
            /\ UNCHANGED <<r_error_output, after_queue>>
       ELSE
            /\ r_error_output' = Join(Tail_n(output_buffer, HistTail))
            /\ after_queue' = after_queue \o
                    << Callback("error_detected", <<>>, 0),
                       Callback("analyzing", <<>>, 0) >>
            /\ r_pc' = "spawn"
            /\ UNCHANGED ai_chat
    /\ UNCHANGED <<groq_client, envVars, pty_in, propVars, errVars, displayVars,
                   histVars, askVars, main_pc, r_output, r_slice, n_reads>>

\* detect_error, lines 1039-1043: the AnalysisRequest, a troubleshoot_error thread
AnalysisRequest == [id |-> n_reads, command |-> last_command, error_output |-> r_error_output]

detect_spawn ==
    /\ r_pc = "spawn"
    /\ ts_threads' = ts_threads \cup {AnalysisRequest}
    /\ analysis_log' = Append(analysis_log, AnalysisRequest)
    /\ r_pc' = "clear"
    /\ UNCHANGED ai_chat
    /\ UNCHANGED <<groq_client, envVars, pty_in, propVars, last_command, output_buffer,
                   displayVars, histVars, askVars, after_queue, main_pc, r_output,
                   r_error_output, r_slice, n_reads>>

\* detect_error, line 1045
detect_clear ==
    /\ r_pc = "clear"
    /\ last_command' = <<>>
    /\ r_error_output' = <<>>
    /\ r_pc' = "read"
    /\ UNCHANGED ai_chat
    /\ UNCHANGED <<groq_client, envVars, pty_in, propVars, output_buffer, ts_threads, analysis_log,
                   displayVars, histVars, askVars, after_queue, main_pc, r_output,
                   r_slice, n_reads>>

\* the lambdas of lines 1035-1036, run by the main loop
analysis_notice_shown(fn) ==
    /\ NextCallback(fn)
    /\ ai_chat' = add_ai_message(<<fn>>)
    /\ after_queue' = Tail(after_queue)
    /\ UNCHANGED <<groq_client, envVars, pty_in, propVars, errVars, displayVars,
                   histVars, askVars, main_pc, readerVars>>

\* troubleshoot_error, lines 1061-1074: the backend call of thread t returns
troubleshoot_returns(t) ==
    /\ t \in ts_threads
    /\ groq_client
    /\ ts_threads' = ts_threads \ {t}
    /\ after_queue' = Append(after_queue, Callback("show_troubleshooting_result", <<>>, 0))
    /\ UNCHANGED ai_chat
    /\ UNCHANGED <<groq_client, envVars, pty_in, propVars, last_command, output_buffer,
                   analysis_log, displayVars, histVars, askVars, main_pc, readerVars>>

\* troubleshoot_error, lines 1076-1078: the backend call of thread t raises
troubleshoot_fails(t) ==
    /\ t \in ts_threads
    /\ ts_threads' = ts_threads \ {t}
    /\ after_queue' = Append(after_queue, Callback("analysis_failed", <<>>, 0))
    /\ UNCHANGED ai_chat
    /\ UNCHANGED <<groq_client, envVars, pty_in, propVars, last_command, output_buffer,
                   analysis_log, displayVars, histVars, askVars, main_pc, readerVars>>

\* a result display that also proposes the analysed fix as a command
show_troubleshooting_result_Proposes ==
    /\ NextCallback("show_troubleshooting_result")
    /\ ai_chat' = add_ai_message(<<"analysis">>)
    /\ after_queue' = Tail(after_queue)
    /\ pending_command' = Some(<<"l", "s">>)
    /\ UNCHANGED <<groq_client, envVars, pty_in, frames, errVars, displayVars,
                   histVars, askVars, main_pc, readerVars>>

\* show_troubleshooting_result(solution), run by the main loop
show_troubleshooting_result ==
    /\ NextCallback("show_troubleshooting_result")
    /\ ai_chat' = add_ai_message(<<"analysis">>)
    /\ after_queue' = Tail(after_queue)
    /\ UNCHANGED <<groq_client, envVars, pty_in, propVars, errVars, displayVars,
                   histVars, askVars, main_pc, readerVars>>

\* the child shell exits
child_exit ==
    /\ process = "running"
    /\ process' = "exited"
    /\ UNCHANGED ai_chat
    /\ UNCHANGED <<groq_client, is_windows, pty_feed, drain_timer, error_boxes, pty_in, propVars, errVars,
                   displayVars, histVars, askVars, after_queue, main_pc, readerVars>>

\* ------------------------------------------------------------ start_terminal
\* how start_terminal can end: the pty library is missing (line 706),
\* PtyProcess.spawn raises (lines 712-715), or the shell is running
SpawnOutcomes == {"no_pty", "spawn_raises", "started"}

\* a start_terminal that arms the drain before it tries to spawn the shell
start_terminal_ArmsFirst(outcome) ==
    /\ main_pc = "start"
    /\ main_pc' = "idle"
    /\ process' = IF outcome = "started" THEN "running" ELSE "None"
    /\ r_pc' = IF outcome = "started" THEN "read" ELSE "none"
    /\ drain_timer' = (outcome # "no_pty")
    /\ error_boxes' = IF outcome = "spawn_raises" THEN error_boxes + 1 ELSE error_boxes
    /\ UNCHANGED ai_chat
    /\ UNCHANGED <<groq_client, is_windows, pty_feed, pty_in, propVars, errVars,
                   displayVars, histVars, askVars, after_queue, r_output,
                   r_error_output, r_slice, n_reads>>

\* start_terminal(), lines 704-723, called once by __init__ (line 110): the
\* reader thread and the first drain timer are started after the spawn, inside
\* the same try, and the except branch shows one message box
start_terminal(outcome) ==
    /\ main_pc = "start"
    /\ main_pc' = "idle"
    /\ process' = IF outcome = "started" THEN "running" ELSE "None"
    /\ r_pc' = IF outcome = "started" THEN "read" ELSE "none"
    /\ drain_timer' = (outcome = "started")
    /\ error_boxes' = IF outcome = "spawn_raises" THEN error_boxes + 1 ELSE error_boxes
    /\ UNCHANGED ai_chat
    /\ UNCHANGED <<groq_client, is_windows, pty_feed, pty_in, propVars, errVars,
                   displayVars, histVars, askVars, after_queue, r_output,
                   r_error_output, r_slice, n_reads>>

\* ================================================================ decoding
\* ------------------------------------------------- character codes (ord())
C1_OSC == "<9D>"
C1_ST == "<9C>"
BQ == "<BQ>"    \* the grave accent, 0x60

\* the characters 0x20..0x7E in code order
Printable ==
    <<" ", "!", "\"", "#", "$", "%", "&", "'", "(", ")", "*", "+", ",", "-", ".", "/",
      "0", "1", "2", "3", "4", "5", "6", "7", "8", "9", ":", ";", "<", "=", ">", "?",
      "@", "A", "B", "C", "D", "E", "F", "G", "H", "I", "J", "K", "L", "M", "N", "O",
      "P", "Q", "R", "S", "T", "U", "V", "W", "X", "Y", "Z", "[", "\\", "]", "^", "_",
      BQ, "a", "b", "c", "d", "e", "f", "g", "h", "i", "j", "k", "l", "m", "n", "o",
      "p", "q", "r", "s", "t", "u", "v", "w", "x", "y", "z", "{", "|", "}", "~">>

Controls == {BEL, BS, "\t", LF, CR, ESC, DEL, C1_ST, C1_OSC}

Charset == {Printable[i] : i \in 1..Len(Printable)} \cup Controls

OrdOf ==
    [c \in Charset |->
        CASE c = BEL -> 7 [] c = BS -> 8 [] c = "\t" -> 9 [] c = LF -> 10
          [] c = CR -> 13 [] c = ESC -> 27 [] c = DEL -> 127
          [] c = C1_ST -> 156 [] c = C1_OSC -> 157
          [] OTHER -> 31 + (CHOOSE i \in 1..Len(Printable) : Printable[i] = c)]

\* a character class [lo-hi] of a pattern
Range(lo, hi) == {c \in Charset : OrdOf[c] \in lo..hi}

\* classes of self.ansi_escape, line 72
EscSingle == Range(64, 90) \cup Range(92, 95)   \* [@-Z\\-_]
CsiParams == Range(48, 63)                      \* [0-?]
CsiInter == Range(32, 47)                       \* [ -/]
CsiFinal == Range(64, 126)                      \* [@-~]
OscBody == Charset \ {BEL, ESC}                 \* [^\x07\x1B]
C1Body == Charset \ {C1_ST}                     \* [^\x9C]
ReDigit == Range(48, 57)                        \* \d
ReSpace == Range(9, 13) \cup {" "}              \* \s
Spinner == {"-", "\\", "|", "/"}                \* [-\\|/]
LineBody == Charset \ {LF, CR}                  \* [^\n\r]

RECURSIVE RunEnd(_, _, _)
\* the position after the longest run of characters of `class` that starts at i
RunEnd(s, i, class) ==
    IF i <= Len(s) /\ s[i] \in class THEN RunEnd(s, i + 1, class) ELSE i

\* X+ at i: the position after it, 0 when it does not match
Plus(s, i, class) ==
    IF i = 0 THEN 0
    ELSE LET p == RunEnd(s, i, class) IN IF p > i THEN p ELSE 0

\* one literal character at i
Lit(s, i, c) == IF i > 0 /\ i <= Len(s) /\ s[i] = c THEN i + 1 ELSE 0

\* one character of a class at i
OneOf(s, i, class) == IF i > 0 /\ i <= Len(s) /\ s[i] \in class THEN i + 1 ELSE 0

\* \][^\x07\x1B]*(?:\x07|\x1B\\) at i
OscTail(s, i) ==
    LET b == Lit(s, i, "]")
        p == IF b = 0 THEN 0 ELSE RunEnd(s, b, OscBody)
    IN IF Lit(s, p, BEL) > 0 THEN p + 1
       ELSE Lit(s, Lit(s, p, ESC), "\\")

\* \[[0-?]*[ -/]*[@-~] at i
CsiTail(s, i) ==
    LET b == Lit(s, i, "[")
        p == IF b = 0 THEN 0 ELSE RunEnd(s, RunEnd(s, b, CsiParams), CsiInter)
    IN OneOf(s, p, CsiFinal)

\* self.ansi_escape at i: the alternatives in their order
AnsiEscape(s, i) ==
    LET e == Lit(s, i, ESC) IN
    IF OneOf(s, e, EscSingle) > 0 THEN OneOf(s, e, EscSingle)
    ELSE IF CsiTail(s, e) > 0 THEN CsiTail(s, e)
    ELSE OscTail(s, e)

\* line 751: \x1B\][^\x07\x1B]*(?:\x07|\x1B\\)
OscPattern(s, i) == OscTail(s, Lit(s, i, ESC))

\* line 752: \x9D[^\x9C]*\x9C
C1Pattern(s, i) ==
    LET b == Lit(s, i, C1_OSC)
        p == IF b = 0 THEN 0 ELSE RunEnd(s, b, C1Body)
    IN Lit(s, p, C1_ST)

\* ^ under re.MULTILINE
LineStartAt(s, i) == i = 1 \/ s[i - 1] = LF

\* \d+;
NumSemi(s, i) == Lit(s, Plus(s, i, ReDigit), ";")

\* \d+;\d+;\d+;\d+\s+
FourNums(s, i) ==
    Plus(s, Plus(s, NumSemi(s, NumSemi(s, NumSemi(s, i))), ReDigit), ReSpace)

\* line 753: ^\d+;\d+;\d+;\d+\s+
CoordPattern(s, i) == IF LineStartAt(s, i) THEN FourNums(s, i) ELSE 0

\* line 754: \d+;\d+;\d+;\d+\s+[-\\|/]\s+
SpinnerPattern(s, i) == Plus(s, OneOf(s, FourNums(s, i), Spinner), ReSpace)

\* line 755: ^\d+;[^\n\r]+?(?=\n|\r|$): the lazy body ends where the line does
TitlePattern(s, i) ==
    IF LineStartAt(s, i) THEN Plus(s, NumSemi(s, i), LineBody) ELSE 0

RECURSIVE SubFrom(_, _, _)
\* re.sub(pattern, '', s) from position i on; ends[j] is the position after
\* the match of the pattern at j, 0 when there is none
SubFrom(s, ends, i) ==
    IF i > Len(s) THEN <<>>
    ELSE IF ends[i] > 0 THEN SubFrom(s, ends, ends[i])
    ELSE <<s[i]>> \o SubFrom(s, ends, i + 1)

\* lines 748-756
strip_ansi_codes(text) ==
    LET c1 == SubFrom(text, [i \in 1..Len(text) |-> AnsiEscape(text, i)], 1)
        c2 == SubFrom(c1, [i \in 1..Len(c1) |-> OscPattern(c1, i)], 1)
        c3 == SubFrom(c2, [i \in 1..Len(c2) |-> C1Pattern(c2, i)], 1)
        c4 == SubFrom(c3, [i \in 1..Len(c3) |-> CoordPattern(c3, i)], 1)
        c5 == SubFrom(c4, [i \in 1..Len(c4) |-> SpinnerPattern(c4, i)], 1)
        c6 == SubFrom(c5, [i \in 1..Len(c5) |-> TitlePattern(c5, i)], 1)
    IN c6

\* ------------------------------------------------------- the Tk text widget
\* A text widget holds its characters and one final newline it never gives
\* up.  An index is the number of characters before it.
TkGet(t) == t \o <<LF>>                        \* get('1.0', END)
TkEnd(t) == Len(t) + 1                         \* END: after the final newline
\* "idx-1c" whatever the count
TkBack_One(idx, n) == IF idx < 1 THEN 0 ELSE idx - 1

TkBack(idx, n) == IF idx < n THEN 0 ELSE idx - n   \* "idx-Nc"

\* "idx linestart"
TkLineStart(t, idx) ==
    CHOOSE p \in 0..idx :
        /\ p = 0 \/ TkGet(t)[p] = LF
        /\ \A q \in (p + 1)..idx : TkGet(t)[q] # LF

\* delete(index1, index2): nothing when index1 is not before index2; the
\* final newline stays, and a range that reaches END from the start of a
\* line takes the newline before that line instead
TkDeleteRange(t, index1, index2) ==
    IF index1 >= index2 THEN t
    ELSE LET toEnd == index2 = TkEnd(t)
             i2 == IF toEnd THEN index2 - 1 ELSE index2
             i1 == IF toEnd /\ index1 > 0 /\ TkLineStart(t, index1) = index1
                   THEN index1 - 1 ELSE index1
         IN SubSeq(t, 1, i1) \o SubSeq(t, i2 + 1, Len(t))

\* delete(index): the one character at index
TkDelete(t, index) == TkDeleteRange(t, index, index + 1)

\* insert(END, char): before the final newline
TkInsertEnd(t, char) == Append(t, char)

\* a decoder that takes every '\r' for an ordinary character
display_char_KeepsCr(t, clean_output, i) ==
    LET char == clean_output[i] IN
    IF char = BS \/ char = DEL
    THEN IF Len(TkGet(t)) > 1 THEN TkDelete(t, TkBack(TkEnd(t), 2)) ELSE t
    ELSE TkInsertEnd(t, char)

\* lines 771-784: one character of the cleaned chunk
display_char(t, clean_output, i) ==
    LET char == clean_output[i] IN
    IF char = BS \/ char = DEL
    THEN IF Len(TkGet(t)) > 1 THEN TkDelete(t, TkBack(TkEnd(t), 2)) ELSE t
    ELSE IF char = CR
    THEN IF i + 1 <= Len(clean_output) /\ clean_output[i + 1] = LF
         THEN t
         ELSE TkDeleteRange(t, TkLineStart(t, TkEnd(t)), TkBack(TkEnd(t), 1))
    ELSE TkInsertEnd(t, char)

RECURSIVE display_loop(_, _, _)
\* lines 769-786: while i < len(clean_output)
display_loop(t, clean_output, i) ==
    IF i > Len(clean_output) THEN t
    ELSE display_loop(display_char(t, clean_output, i), clean_output, i + 1)

RECURSIVE drain(_, _)
\* lines 765-768: every chunk of the queue, each cleaned on its own
drain(t, q) ==
    IF q = <<>> THEN t
    ELSE drain(display_loop(t, strip_ansi_codes(Head(q)), 1), Tail(q))

\* a drain that decodes the oldest chunk and throws the others away
update_terminal_display_DropsRest ==
    /\ main_pc = "idle"
    /\ drain_timer
    /\ output_queue # <<>>
    /\ terminal_display' = drain(terminal_display, <<Head(output_queue)>>)
    /\ output_queue' = <<>>
    /\ UNCHANGED ai_chat
    /\ UNCHANGED <<groq_client, envVars, pty_in, propVars, errVars, histVars,
                   askVars, after_queue, main_pc, readerVars>>

\* update_terminal_display(), run by the main loop every 50 ms; on an empty
\* queue get_nowait raises queue.Empty at once and nothing changes
update_terminal_display ==
    /\ main_pc = "idle"
    /\ drain_timer
    /\ output_queue # <<>>
    /\ terminal_display' = drain(terminal_display, output_queue)
    /\ output_queue' = <<>>
    /\ UNCHANGED ai_chat
    /\ UNCHANGED <<groq_client, envVars, pty_in, propVars, errVars, histVars,
                   askVars, after_queue, main_pc, readerVars>>

\* clear_terminal_screen(), run by the main loop
clear_terminal_screen ==
    /\ NextCallback("clear_terminal_screen")
    /\ terminal_display' = TkDeleteRange(terminal_display, 0, TkEnd(terminal_display))
    /\ after_queue' = Tail(after_queue)
    /\ UNCHANGED ai_chat
    /\ UNCHANGED <<groq_client, envVars, pty_in, propVars, errVars, output_queue,
                   histVars, askVars, main_pc, readerVars>>

\* ------------------------------------------------ the workflow specification
\* The assistant workflow on a shell that prints nothing: every handler of the
\* assistant pane, the backend threads, and the exit of the child.
Init ==
    /\ InitCommon
    /\ pty_feed = <<>>

Next ==
    \/ \E text \in EntryTexts : ask_ai(text)
    \/ \E t \in suggest_threads, reply \in Replies : suggestion_returns(t, reply)
    \/ \E t \in suggest_threads : suggestion_fails(t)
    \/ show_command_suggestion
    \/ suggestion_error_shown
    \/ \E frame \in frames : execute_pending_command(frame)
    \/ execute_write
    \/ \E frame \in frames : cancel_pending_command(frame)
    \/ \E ok \in BOOLEAN : update_api_key(ok)
    \/ child_exit
    \/ reader_eof

Spec == Init /\ [][Next]_vars

\* --------------------------------------------- the error-signal specification
\* The reader thread against the main thread.  It starts where the program
\* stands after a first suggestion has been confirmed or not, `k` lines
\* without a failure keyword have been read since, and a second suggestion,
\* "ls", has been shown and is pending with its controls.
Digits == <<"0", "1", "2", "3", "4", "5", "6", "7", "8", "9">>

\* the k-th line the shell printed
Line(k) == <<"l", Digits[((k \div 10) % 10) + 1], Digits[(k % 10) + 1], LF>>

Prefill(k) == [i \in 1..k |-> Line(i)]

FirstCommand == <<"a", LF, "b">>

InitErr ==
    /\ groq_client = TRUE
    /\ is_windows = FALSE
    /\ process = "running"
    /\ drain_timer = TRUE
    /\ error_boxes = 0
    /\ pty_feed \in SeqsUpTo(Chunks, MaxReads)
    /\ \E k \in {0, HistTail - 1, HistTail} :
          /\ last_command \in (IF k = 0 THEN {<<>>, FirstCommand} ELSE {FirstCommand})
          /\ output_buffer = Prefill(k)
          /\ output_queue = Prefill(k)
          /\ n_reads = k
    /\ pty_in = IF last_command = <<>> THEN <<>> ELSE << FirstCommand \o <<LF>> >>
    /\ pending_command = Some(<<"l", "s">>)
    /\ frames = {[id |-> 2, command |-> <<"l", "s">>]}
    /\ suggest_threads = {}
    /\ next_req = 2
    /\ analysis_log = <<>>
    /\ command_history = << <<"q">>, <<"r">> >>
    /\ history_index = -1
    /\ ai_chat = "command"
    /\ terminal_display = <<>>
    /\ ts_threads = {}
    /\ after_queue = <<>>
    /\ main_pc = "idle"
    /\ r_pc = "read"
    /\ r_output = <<>>
    /\ r_error_output = <<>>
    /\ r_slice = <<>>

NextErr ==
    \/ \E frame \in frames : execute_pending_command(frame)
    \/ execute_write
    \/ \E frame \in frames : cancel_pending_command(frame)
    \/ \E ok \in BOOLEAN : update_api_key(ok)
    \/ reader_read
    \/ reader_publish
    \/ reader_append
    \/ reader_trim_check
    \/ reader_test
    \/ detect_error
    \/ detect_spawn
    \/ detect_clear
    \/ \E fn \in {"error_detected", "analyzing", "analysis_failed"} : analysis_notice_shown(fn)
    \/ \E t \in ts_threads : troubleshoot_returns(t)
    \/ \E t \in ts_threads : troubleshoot_fails(t)
    \/ show_troubleshooting_result

SpecErr == InitErr /\ [][NextErr]_vars

\* --------------------------------------------------- the decoder specification
\* The shell prints one stream, the pty hands it to the reader thread cut
\* into chunks at any places, and the main loop drains the queue into the
\* text widget and runs the clear callbacks, in any order the two threads
\* allow.  No command has been confirmed.
Alphabet == {ESC, "[", "J", CR, LF, "a"}

Examples ==
    { <<"a", "b", "c", CR, "X">>,
      <<"a", ESC, "[", "2", "J", "b">>,
      <<ESC, "[", "H", ESC, "[", "2", "J">>,
      <<"a", ESC, "[", "3", "J">>,
      <<"a", CR, LF, "b", CR>>,
      <<"a", "b", CR, LF, "c", "d">>,
      <<"a", "b", BS, DEL, BS>>,
      <<"a", "b", BS>>,
      <<BS, "a", LF, DEL>>,
      <<DEL>>,
      <<"a", LF, "1", "2", ";", "a", "b", "c">>,
      <<ESC, ESC, "]", "]", "0", ";", "t", BEL>>,
      <<ESC, "]", "0", ";", "t", ESC, "\\">>,
      <<ESC, "]", "0", ";", "t", LF, "a">>,
      <<C1_OSC, "t", C1_ST, "a">>,
      <<"1", ";", "2", ";", "3", ";", "4", " ">>,
      <<"a", "1", ";", "2", ";", "3", ";", "4", " ", "|", " ">> }

RECURSIVE Splits(_)
\* every way of cutting s into consecutive non-empty chunks
Splits(s) ==
    IF s = <<>> THEN {<<>>}
    ELSE UNION { { <<SubSeq(s, 1, k)>> \o rest : rest \in Splits(SubSeq(s, k + 1, Len(s))) }
                 : k \in 1..Len(s) }

\* s whole, and s cut in two at every place
Cuts(s) == {<<s>>} \cup {<<SubSeq(s, 1, k), SubSeq(s, k + 1, Len(s))>> : k \in 1..(Len(s) - 1)}

\* every cutting of the short streams, every cut of the examples
Feeds ==
    UNION {Splits(s) : s \in SeqsUpTo(Alphabet, MaxStream)}
        \cup UNION {Cuts(s) : s \in Examples}

InitDecode ==
    /\ InitCommon
    /\ groq_client = TRUE
    /\ is_windows = FALSE
    /\ process = "running"
    /\ pty_feed \in Feeds

NextDecode ==
    \/ reader_read
    \/ reader_publish
    \/ reader_append
    \/ reader_trim_check
    \/ reader_test
    \/ update_terminal_display
    \/ clear_terminal_screen

SpecDecode == InitDecode /\ [][NextDecode]_vars

\* update_terminal_display can take a step: the main loop is between handlers
\* and a chunk waits
DrainEnabled == main_pc = "idle" /\ drain_timer /\ output_queue # <<>>

\* the step update_terminal_display takes
DrainTaken == DrainEnabled /\ output_queue' = <<>>

\* line 792: the drain re-arms itself in its `finally`, so it runs again and
\* again as long as the main loop runs: weak fairness of
\* update_terminal_display, written out
SpecDecodeFair == SpecDecode /\ ([]<>(~DrainEnabled) \/ []<><<DrainTaken>>_vars)

\* --------------------------------------------------- the backend specification
\* Both kinds of backend thread against the main loop.  It starts where the
\* program stands after a first suggestion, FirstCommand, was confirmed, the
\* shell answered with one failing chunk, and detect_error has dispatched the
\* analysis of it and cleared last_command: that analysis call is in flight.
FirstAnalysis == [id |-> 1, command |-> FirstCommand, error_output |-> ChunkErr]

InitBackend ==
    /\ groq_client = TRUE
    /\ is_windows = FALSE
    /\ process = "running"
    /\ drain_timer = TRUE
    /\ error_boxes = 0
    /\ pty_feed = <<>>
    /\ pty_in = << FirstCommand \o <<LF>> >>
    /\ pending_command = None
    /\ frames = {}
    /\ last_command = <<>>
    /\ output_buffer = <<ChunkErr>>
    /\ output_queue = <<>>
    /\ terminal_display = ChunkErr
    /\ command_history = << <<"q">> >>
    /\ history_index = -1
    /\ suggest_threads = {}
    /\ next_req = 1
    /\ ts_threads = {FirstAnalysis}
    /\ analysis_log = <<FirstAnalysis>>
    /\ after_queue = <<>>
    /\ ai_chat = "analyzing"
    /\ main_pc = "idle"
    /\ r_pc = "read"
    /\ r_output = ChunkErr
    /\ r_error_output = <<>>
    /\ r_slice = <<>>
    /\ n_reads = 1

NextBackend ==
    \/ \E text \in EntryTexts : ask_ai(text)
    \/ \E t \in suggest_threads, reply \in Replies : suggestion_returns(t, reply)
    \/ \E t \in suggest_threads : suggestion_fails(t)
    \/ show_command_suggestion
    \/ suggestion_error_shown
    \/ \E frame \in frames : execute_pending_command(frame)
    \/ execute_write
    \/ \E frame \in frames : cancel_pending_command(frame)
    \/ \E ok \in BOOLEAN : update_api_key(ok)
    \/ \E t \in ts_threads : troubleshoot_returns(t)
    \/ \E t \in ts_threads : troubleshoot_fails(t)
    \/ show_troubleshooting_result
    \/ analysis_notice_shown("analysis_failed")

SpecBackend == InitBackend /\ [][NextBackend]_vars

\* ------------------------------------------------------ the keys specification
\* Every writer of the session: the keys of the terminal pane and the confirm
\* of a proposal, with and without a shell, on both platforms.  It starts
\* where a first suggestion has just been shown.
InitKeys ==
    /\ groq_client = TRUE
    /\ is_windows \in BOOLEAN
    /\ process \in {"None", "running"}
    /\ drain_timer = (process = "running")
    /\ error_boxes \in (IF process = "None" THEN {0, 1} ELSE {0})
    /\ pty_feed = <<>>
    /\ pty_in = <<>>
    /\ \E reply \in Replies :
          /\ Strip(reply) # <<>>
          /\ pending_command = Some(Strip(reply))
          /\ frames = {[id |-> 1, command |-> Strip(reply)]}
    /\ last_command = <<>>
    /\ output_buffer = <<>>
    /\ output_queue = <<>>
    /\ terminal_display = <<>>
    /\ command_history = << <<"q">> >>
    /\ history_index = -1
    /\ suggest_threads = {}
    /\ next_req = 1
    /\ ts_threads = {}
    /\ analysis_log = <<>>
    /\ after_queue = <<>>
    /\ ai_chat = "command"
    /\ main_pc = "idle"
    /\ r_pc = IF process = "None" THEN "none" ELSE "read"
    /\ r_output = <<>>
    /\ r_error_output = <<>>
    /\ r_slice = <<>>
    /\ n_reads = 0

NextKeys ==
    \/ \E key \in Keys : handle_key_press(key)
    \/ \E frame \in frames : execute_pending_command(frame)
    \/ execute_write
    \/ \E frame \in frames : cancel_pending_command(frame)
    \/ child_exit
    \/ reader_eof

SpecKeys == InitKeys /\ [][NextKeys]_vars

\* ------------------------------------------------- the end-of-stream specification
\* The error-signal specification with a shell that may exit at any moment:
\* the pty then reports end of stream once the chunks it still held are read.
NextEof ==
    \/ \E frame \in frames : execute_pending_command(frame)
    \/ execute_write
    \/ \E frame \in frames : cancel_pending_command(frame)
    \/ \E ok \in BOOLEAN : update_api_key(ok)
    \/ reader_read
    \/ reader_publish
    \/ reader_append
    \/ reader_trim_check
    \/ reader_test
    \/ detect_error
    \/ detect_spawn
    \/ detect_clear
    \/ \E fn \in {"error_detected", "analyzing", "analysis_failed"} : analysis_notice_shown(fn)
    \/ \E t \in ts_threads : troubleshoot_returns(t)
    \/ \E t \in ts_threads : troubleshoot_fails(t)
    \/ show_troubleshooting_result
    \/ child_exit
    \/ reader_eof

SpecEof == InitErr /\ [][NextEof]_vars

\* ------------------------------------------------------ the trim specification
\* The error-signal specification started where the history window is one
\* entry short of its limit or at it, so that the next appends overflow it.
InitTrim ==
    /\ groq_client = TRUE
    /\ is_windows = FALSE
    /\ process = "running"
    /\ drain_timer = TRUE
    /\ error_boxes = 0
    /\ pty_feed \in SeqsUpTo(Chunks, MaxReads)
    /\ \E k \in {HistMax - 1, HistMax} :
          /\ output_buffer = Prefill(k)
          /\ output_queue = Prefill(k)
          /\ n_reads = k
    /\ last_command = FirstCommand
    /\ pty_in = << FirstCommand \o <<LF>> >>
    /\ pending_command = Some(<<"l", "s">>)
    /\ frames = {[id |-> 2, command |-> <<"l", "s">>]}
    /\ suggest_threads = {}
    /\ next_req = 2
    /\ analysis_log = <<>>
    /\ command_history = << <<"q">>, <<"r">> >>
    /\ history_index = -1
    /\ ai_chat = "command"
    /\ terminal_display = <<>>
    /\ ts_threads = {}
    /\ after_queue = <<>>
    /\ main_pc = "idle"
    /\ r_pc = "read"
    /\ r_output = <<>>
    /\ r_error_output = <<>>
    /\ r_slice = <<>>

NextTrim ==
    \/ \E frame \in frames : execute_pending_command(frame)
    \/ execute_write
    \/ \E frame \in frames : cancel_pending_command(frame)
    \/ \E ok \in BOOLEAN : update_api_key(ok)
    \/ reader_read
    \/ reader_publish
    \/ reader_append
    \/ reader_trim_check
    \/ reader_trim_slice
    \/ reader_trim_store
    \/ reader_test
    \/ detect_error
    \/ detect_spawn
    \/ detect_clear
    \/ \E fn \in {"error_detected", "analyzing", "analysis_failed"} : analysis_notice_shown(fn)
    \/ \E t \in ts_threads : troubleshoot_returns(t)
    \/ \E t \in ts_threads : troubleshoot_fails(t)
    \/ show_troubleshooting_result

SpecTrim == InitTrim /\ [][NextTrim]_vars

\* ------------------------------------------------------ the calls specification
\* Both kinds of backend call together: the user asks for suggestions while
\* the shell prints failures of confirmed commands.  It starts after a first
\* suggestion was confirmed, with nothing read yet.
InitCalls ==
    /\ groq_client = TRUE
    /\ is_windows = FALSE
    /\ process = "running"
    /\ drain_timer = TRUE
    /\ error_boxes = 0
    /\ pty_feed \in {<<>>, <<ChunkErr>>}
    /\ output_buffer = <<>>
    /\ output_queue = <<>>
    /\ n_reads = 0
    /\ last_command = FirstCommand
    /\ pty_in = << FirstCommand \o <<LF>> >>
    /\ pending_command = None
    /\ frames = {}
    /\ suggest_threads = {}
    /\ next_req = 1
    /\ analysis_log = <<>>
    /\ command_history = << <<"q">> >>
    /\ history_index = -1
    /\ ai_chat = "executed"
    /\ terminal_display = <<>>
    /\ ts_threads = {}
    /\ after_queue = <<>>
    /\ main_pc = "idle"
    /\ r_pc = "read"
    /\ r_output = <<>>
    /\ r_error_output = <<>>
    /\ r_slice = <<>>

NextCalls ==
    \/ \E text \in EntryTexts : ask_ai(text)
    \/ \E t \in suggest_threads, reply \in Replies : suggestion_returns(t, reply)
    \/ \E t \in suggest_threads : suggestion_fails(t)
    \/ show_command_suggestion
    \/ suggestion_error_shown
    \/ \E frame \in frames : execute_pending_command(frame)
    \/ execute_write
    \/ \E frame \in frames : cancel_pending_command(frame)
    \/ \E ok \in BOOLEAN : update_api_key(ok)
    \/ reader_read
    \/ reader_publish
    \/ reader_append
    \/ reader_trim_check
    \/ reader_test
    \/ detect_error
    \/ detect_spawn
    \/ detect_clear
    \/ \E fn \in {"error_detected", "analyzing", "analysis_failed"} : analysis_notice_shown(fn)
    \/ \E t \in ts_threads : troubleshoot_returns(t)
    \/ \E t \in ts_threads : troubleshoot_fails(t)
    \/ show_troubleshooting_result

SpecCalls == InitCalls /\ [][NextCalls]_vars

\* ------------------------------------------------------ the start specification
\* The program from the end of __init__'s field assignments: start_terminal
\* has not run yet.  Afterwards the user asks for a suggestion, confirms or
\* rejects it and presses keys, and the shell, if there is one, prints.
InitStart ==
    /\ groq_client = TRUE
    /\ is_windows \in BOOLEAN
    /\ process = "None"
    /\ drain_timer = FALSE
    /\ error_boxes = 0
    /\ pty_feed \in {<<>>, <<ChunkOk>>}
    /\ pty_in = <<>>
    /\ pending_command = None
    /\ last_command = <<>>
    /\ output_buffer = <<>>
    /\ output_queue = <<>>
    /\ terminal_display = <<>>
    /\ command_history = <<>>
    /\ history_index = -1
    /\ frames = {}
    /\ suggest_threads = {}
    /\ ts_threads = {}
    /\ after_queue = <<>>
    /\ main_pc = "start"
    /\ r_pc = "none"
    /\ r_output = <<>>
    /\ r_error_output = <<>>
    /\ r_slice = <<>>
    /\ n_reads = 0
    /\ next_req = 0
    /\ analysis_log = <<>>
    /\ ai_chat = "welcome"

NextStart ==
    \/ \E outcome \in SpawnOutcomes : start_terminal(outcome)
    \/ \E text \in {<<"q">>} : ask_ai(text)
    \/ \E t \in suggest_threads, reply \in {<<"l", "s">>} : suggestion_returns(t, reply)
    \/ show_command_suggestion
    \/ \E frame \in frames : execute_pending_command(frame)
    \/ execute_write
    \/ \E frame \in frames : cancel_pending_command(frame)
    \/ \E key \in {"a", "Return"} : handle_key_press(key)
    \/ reader_read
    \/ reader_publish
    \/ reader_append
    \/ reader_trim_check
    \/ reader_test
    \/ update_terminal_display

SpecStart == InitStart /\ [][NextStart]_vars

\* ---------------------------------------------------- the history specification
\* The entry of the assistant pane: queries are submitted, with and without a
\* backend client, and the Up and Down keys walk through the query history.
\* What a key puts into the entry is among the texts ask_ai is given.
NextHistory ==
    \/ \E text \in EntryTexts : ask_ai(text)
    \/ history_up
    \/ history_down
    \/ \E t \in suggest_threads, reply \in Replies : suggestion_returns(t, reply)
    \/ \E t \in suggest_threads : suggestion_fails(t)
    \/ show_command_suggestion
    \/ suggestion_error_shown
    \/ \E ok \in BOOLEAN : update_api_key(ok)

SpecHistory == Init /\ [][NextHistory]_vars

\* ================================================================== claims
ExecuteBegins == main_pc = "idle" /\ main_pc' = "execute"
ExecuteEnds == main_pc = "execute" /\ main_pc' = "idle"

\* C1: a command reaches the session only in the write step of a confirm:
\* every change of what the session was given is one more write made while
\* execute_pending_command runs on a pending proposal, and that handler is
\* entered only by pressing the Execute control of an existing frame while a
\* non-empty proposal is pending.
C1_Thm ==
    [][ /\ (pty_in' # pty_in =>
              /\ main_pc = "execute"
              /\ Truthy(pending_command)
              /\ Len(pty_in') = Len(pty_in) + 1
              /\ SubSeq(pty_in', 1, Len(pty_in)) = pty_in)
        /\ (ExecuteBegins =>
              /\ Truthy(pending_command)
              /\ frames' # frames
              /\ frames' \subseteq frames) ]_vars

C1_Witness == pty_in # <<>> /\ pending_command = None /\ main_pc = "idle"

\* what the session must be given for command c, written out by hand
ExpectedWrite(c, win) ==
    CASE c = <<"l", "s">> ->
            IF win THEN <<"l", "s", CR, LF>> ELSE <<"l", "s", LF>>
      [] c = <<"a", LF, "b">> ->
            IF win THEN <<"a", CR, LF, "b", CR, LF>> ELSE <<"a", LF, "b", LF>>

CancelStep ==
    /\ main_pc = "idle" /\ main_pc' = "idle"
    /\ frames' # frames
    /\ frames' \subseteq frames

\* C3: a cancel writes nothing to the session, leaves LastCommand and the
\* output history window as they were, and leaves PendingCommand empty.
C3_Thm ==
    [][ CancelStep =>
          /\ pty_in' = pty_in
          /\ last_command' = last_command
          /\ output_buffer' = output_buffer
          /\ pending_command' = None ]_vars

C3_Witness ==
    /\ ai_chat = "cancelled"
    /\ pending_command = None
    /\ last_command # <<>>
    /\ output_buffer # <<>>

\* C4 as claimed: a suggestion that becomes PendingCommand (its controls are
\* created) always belongs to the latest accepted request; the result of a
\* superseded request is discarded.
C4_Claim == [][ \A f \in frames' \ frames : f.id = next_req ]_vars

\* C5 as claimed: an accepted ask_ai leaves no PendingCommand, and no confirm
\* writes a command while a suggestion request is in flight.
C5_Claim ==
    [][ /\ (next_req' # next_req => ~Truthy(pending_command'))
        /\ (pty_in' # pty_in => suggest_threads = {}) ]_vars

\* the main loop shows the failure of a suggestion request
SuggestionErrorShown ==
    /\ main_pc = "idle"
    /\ after_queue # <<>>
    /\ Head(after_queue).fn = "suggestion_error"
    /\ after_queue' = Tail(after_queue)

\* C8 as claimed: when a suggestion request fails, a message is shown, nothing
\* is written and no PendingCommand is held afterwards.
C8_Claim ==
    [][ SuggestionErrorShown =>
          /\ ai_chat' = "suggestion_error"
          /\ pty_in' = pty_in
          /\ ~Truthy(pending_command') ]_vars

\* the chunks of the model that hold a failure keyword in some letter case
Qualifies(output) == output = ChunkErr

\* the request detect_error must emit for the chunk it was called on
ExpectedRequest ==
    [id |-> n_reads, command |-> last_command, error_output |-> r_error_output]

EmitsOnce ==
    /\ (r_pc = "spawn" /\ r_pc' # "spawn" =>
          analysis_log' = Append(analysis_log, ExpectedRequest))
    /\ (analysis_log' # analysis_log =>
          /\ r_pc = "spawn"
          /\ \A i \in 1..Len(analysis_log) : analysis_log[i].id # n_reads)

TestDecides ==
    r_pc = "test" /\ r_pc' # "test" =>
        (r_pc' = "detect" <=> (last_command # <<>> /\ Qualifies(r_output)))

\* C6 as claimed: a chunk that holds a failure keyword, read while LastCommand
\* is non-empty, always gets exactly one AnalysisRequest; no other chunk gets one.
C6_Claim ==
    [][ /\ TestDecides
        /\ (r_pc = "detect" /\ r_pc' # "detect" => r_pc' = "spawn")
        /\ EmitsOnce ]_vars

\* C6 as amended: a chunk that holds a failure keyword (in any letter case),
\* read while LastCommand is non-empty, gets exactly one AnalysisRequest when a
\* backend client is configured as detect_error runs, and none when no client
\* is configured; a chunk read while LastCommand is empty, or without a
\* keyword, gets none.
C6_Thm ==
    [][ /\ TestDecides
        /\ (r_pc = "detect" /\ r_pc' # "detect" => (r_pc' = "spawn" <=> groq_client))
        /\ EmitsOnce ]_vars

C6_Witness ==
    /\ Len(analysis_log) = 1
    /\ n_reads = 2
    /\ output_buffer = <<ChunkErr, ChunkErr>>
    /\ r_pc = "read"
    /\ groq_client

\* the last min(20, length) entries of a list, in their order
LastTwenty(list) ==
    LET n == IF Len(list) < 20 THEN Len(list) ELSE 20
    IN [i \in 1..n |-> list[Len(list) - n + i]]

Quiet ==
    /\ pty_feed = <<>>
    /\ r_pc = "read"
    /\ output_queue = <<>>
    /\ after_queue = <<>>
    /\ main_pc = "idle"

\* the stream the shell printed so far
StreamRead == Join(output_buffer)

\* what the widget may hold after `stream` came as one chunk into an empty
\* widget: the drain of that chunk, or nothing when the chunk asked for a
\* clear and the clear callback ran after the drain
WholeOutcomes(stream) ==
    {drain(<<>>, <<stream>>)} \cup (IF HasClear(stream) THEN {<<>>} ELSE {})

\* C9: for every stream and every way of cutting it into chunks, once all of
\* it is decoded the terminal buffer is what decoding the stream as one chunk
\* leaves.
C9_Claim == Quiet /\ output_buffer # <<>> => terminal_display \in WholeOutcomes(StreamRead)

RECURSIVE CurrentLine(_)
\* the characters after the last line feed
CurrentLine(t) ==
    IF t = <<>> \/ Last(t) = LF THEN <<>>
    ELSE Append(CurrentLine(SubSeq(t, 1, Len(t) - 1)), Last(t))

\* C10: a carriage return not followed by a line feed makes the following
\* text overwrite the line from its start: once "abc\rX" is decoded into an
\* empty buffer, the current line is "Xbc".
C10_Claim ==
    Quiet /\ output_buffer = << <<"a", "b", "c", CR, "X">> >>
        => CurrentLine(terminal_display) = <<"X", "b", "c">>

\* ---------------------------------------------------------------- backspace
\* the drain step of the main loop
DrainStep == output_queue # <<>> /\ output_queue' = <<>>

\* visible characters that no pattern of strip_ansi_codes can touch when no
\* digit and no escape character stands with them
PlainChars == {"a", "b", "c", "X", "J", "[", LF}

ErasingChars == {BS, DEL}

RECURSIVE Typed(_, _)
\* the line editor the claim describes: a plain character is appended, an
\* erasing character removes the most recently inserted character, if any
Typed(t, text) ==
    IF text = <<>> THEN t
    ELSE IF Head(text) \in ErasingChars
    THEN Typed(IF t = <<>> THEN t ELSE SubSeq(t, 1, Len(t) - 1), Tail(text))
    ELSE Typed(Append(t, Head(text)), Tail(text))

OnlyChars(text, class) == \A i \in 1..Len(text) : text[i] \in class

\* C11: a backspace or DEL decoded into an empty terminal buffer leaves it
\* empty; decoded after N >= 1 inserted characters it removes exactly the
\* most recently inserted one and leaves the other N - 1 unchanged.
C11_Thm ==
    [][ DrainStep /\ OnlyChars(Join(output_queue), PlainChars \cup ErasingChars)
            => terminal_display' = Typed(terminal_display, Join(output_queue)) ]_vars

C11_Witness ==
    /\ Quiet
    /\ StreamRead = <<"a", "b", BS>>
    /\ terminal_display = <<"a">>

\* the erasing character met an empty buffer
C11_WitnessEmpty == Quiet /\ StreamRead = <<DEL>> /\ terminal_display = <<>>

\* --------------------------------------------------------------- clean text
\* characters that are no control bytes: the printable ones, tab and line feed
CleanChars == Charset \ (Controls \ {LF, "\t"})

\* C12: decoding text without control bytes (no ESC, backspace, DEL, carriage
\* return), lines such as "12;abc" included, leaves the terminal buffer equal
\* to its previous content with that text appended verbatim.
C12_Claim ==
    [][ DrainStep /\ OnlyChars(Join(output_queue), CleanChars)
            => terminal_display' = terminal_display \o Join(output_queue) ]_vars

\* ------------------------------------------------------------- clear screen
\* the recognized clear-screen sequences, line 731
ClearSeqs ==
    { <<ESC, "[", "2", "J">>,
      <<ESC, "[", "H", ESC, "[", "2", "J">>,
      <<ESC, "[", "3", "J">> }

EndsWithClear(chunk) == \E seq \in ClearSeqs : Tail_n(chunk, Len(seq)) = seq

\* the clear callback's step
ClearStep == after_queue # <<>> /\ after_queue' = Tail(after_queue)
                /\ Head(after_queue).fn = "clear_terminal_screen"

\* C13, history half: the clear removes nothing from output_buffer.
C13_HistoryKept == [][ ClearStep => output_buffer' = output_buffer ]_vars

\* C13: when a recognized clear-screen sequence is received the terminal
\* buffer is reset to empty: once a chunk that ends with the whole sequence is
\* the last thing received and everything is decoded, the buffer is empty
\* (and the history window still holds every chunk).
C13_Claim ==
    Quiet /\ output_buffer # <<>> /\ EndsWithClear(Last(output_buffer))
        => terminal_display = <<>> /\ Len(output_buffer) = n_reads

\* ------------------------------------------------- analysis and the proposal
AnalysisCallbacks == {"error_detected", "analyzing", "analysis_failed", "show_troubleshooting_result"}

\* a step of detect_error, of a troubleshoot_error thread, or of the display
\* of an analysis notice or result
AnalysisStep ==
    \/ r_pc \in {"detect", "spawn", "clear"} /\ r_pc' # r_pc
    \/ ts_threads' # ts_threads
    \/ /\ after_queue # <<>>
       /\ after_queue' = Tail(after_queue)
       /\ Head(after_queue).fn \in AnalysisCallbacks

\* C14: error detection, the explainFailure call and the display of its
\* result, success or failure, never change PendingCommand: a pending
\* proposal stays pending with the same text and controls, an empty one
\* stays empty.
C14_Thm == [][ AnalysisStep => pending_command' = pending_command /\ frames' = frames ]_vars

\* an analysis result was shown while "ls" was still proposed
C14_Witness ==
    /\ ai_chat = "analysis"
    /\ pending_command = Some(<<"l", "s">>)
    /\ analysis_log # <<>>

\* ------------------------------------------------------- background threads
\* a step of a get_command_suggestion or troubleshoot_error thread: its
\* backend call completes and the thread ends
BackendThreadStep ==
    \/ \E t \in suggest_threads : suggest_threads' = suggest_threads \ {t}
    \/ \E t \in ts_threads : ts_threads' = ts_threads \ {t}

\* one callback was handed to the main loop and nothing was taken from it
HandsOneCallback ==
    /\ Len(after_queue') = Len(after_queue) + 1
    /\ SubSeq(after_queue', 1, Len(after_queue)) = after_queue

\* C15: the threads that run backend calls never change PendingCommand,
\* LastCommand or the output history themselves: a completed call only hands
\* a callback to the main loop, so PendingCommand is assigned on the main
\* thread only.
C15_Thm ==
    [][ BackendThreadStep =>
            /\ pending_command' = pending_command
            /\ frames' = frames
            /\ last_command' = last_command
            /\ output_buffer' = output_buffer
            /\ HandsOneCallback ]_vars

\* both a suggestion and an analysis came back through the main loop
C15_Witness ==
    /\ pending_command = Some(<<"l", "s">>)
    /\ ai_chat = "analysis"
    /\ suggest_threads = {}
    /\ ts_threads = {}
    /\ after_queue = <<>>

\* ------------------------------------------------------------ single writer
\* a step of the reader thread (read_terminal_output and what it calls)
ReaderStep == r_pc' # r_pc

\* C16: output_buffer and last_command have a single writer, the main thread
\* that runs the drain; the reader thread only publishes chunks to the queue
\* and never writes either of them.
C16_Claim ==
    [][ output_buffer' # output_buffer \/ last_command' # last_command => ~ReaderStep ]_vars

\* ------------------------------------------------------ malformed sequences
\* a lone ESC, a CSI cut before its final byte, an OSC without terminator
LoneEsc == <<ESC>>
CutCsi == <<ESC, "[">>
OpenOsc == <<ESC, "]", "0", ";", "t">>

\* chunks that hold one malformed sequence, alone or between plain text
Around(m) == { pre \o m \o post : pre \in {<<>>, <<"a">>}, post \in {<<>>, <<LF>>, <<LF, "a">>} }

\* the drain of the one chunk `chunk` shows it as literal text
ShownLiterally(chunk) ==
    DrainStep /\ output_queue = <<chunk>> => terminal_display' = terminal_display \o chunk

\* C17, for a lone ESC and a cut CSI: they are shown as literal text and the
\* text after them is decoded normally.
C17_EscAndCsi == [][ \A chunk \in Around(LoneEsc) \cup Around(CutCsi) : ShownLiterally(chunk) ]_vars

\* C17: decoding has no failure outcome; a chunk with a truncated or
\* malformed escape sequence (a lone ESC, an unterminated OSC) is drained, the
\* malformed bytes appear in the terminal buffer as literal text and the
\* bytes after them are decoded normally.
C17_Claim ==
    [][ \A chunk \in Around(LoneEsc) \cup Around(CutCsi) \cup Around(OpenOsc) :
            ShownLiterally(chunk) ]_vars

\* ------------------------------------------------------- line-ending of writes
\* what the session must be given for a key, written out by hand
ExpectedKeys(win) ==
    IF win
    THEN { <<BS>>, <<CR, LF>>, <<"\t">>, <<ESC, "[", "A">>, <<"a">> }
    ELSE { <<DEL>>, <<LF>>, <<"\t">>, <<ESC, "[", "A">>, <<"a">> }

\* the data the running handler may send
ExpectedSent ==
    IF main_pc = "execute"
    THEN {ExpectedWrite(pending_command[1], is_windows)}
    ELSE ExpectedKeys(is_windows)

\* C18: every write to the session is translated once: on Windows each '\n'
\* of the data is sent as '\r\n', elsewhere the data is sent unchanged; with
\* no session process a write sends nothing and raises nothing.
C18_Thm ==
    [][ /\ (pty_in' # pty_in =>
              /\ process # "None"
              /\ Len(pty_in') = Len(pty_in) + 1
              /\ SubSeq(pty_in', 1, Len(pty_in)) = pty_in
              /\ Last(pty_in') \in ExpectedSent)
        /\ (process = "None" => pty_in' = pty_in /\ ~WriteRaises) ]_vars

\* on Windows the Return key and a two-line command were both sent
C18_Witness ==
    /\ is_windows
    /\ Len(pty_in) = 2
    /\ pty_in[1] = <<CR, LF>>
    /\ pty_in[2] = <<"a", CR, LF, "b", CR, LF>>

\* keys were pressed and a command confirmed without a session process
C18_WitnessNoProcess == process = "None" /\ last_command # <<>> /\ pending_command = None

\* ------------------------------------------------------------ end of stream
\* the reader's read() reports the end of stream
ReadReportsEof == r_pc = "read" /\ pty_feed = <<>> /\ process = "exited" /\ ReaderStep

\* C19: once the pty read reports end of stream the reader's loop ends, and
\* after that the reader enqueues no chunk, appends no history entry and
\* emits no AnalysisRequest.
C19_Thm ==
    [][ /\ (ReadReportsEof => r_pc' = "done")
        /\ (r_pc = "done" =>
              /\ r_pc' = "done"
              /\ n_reads' = n_reads
              /\ output_queue' = output_queue
              /\ output_buffer' \in {output_buffer, <<>>}
              /\ analysis_log' = analysis_log
              /\ ts_threads' \subseteq ts_threads) ]_vars

\* the reader ended after it had read chunks and emitted an AnalysisRequest,
\* and the main thread went on
C19_Witness ==
    /\ r_pc = "done"
    /\ analysis_log # <<>>
    /\ pty_in # <<>>
    /\ Last(pty_in) = <<"l", "s", LF>>
    /\ ai_chat = "analysis"

\* ------------------------------------------------- LastCommand under the race
\* C20: after a confirm sets LastCommand = c it stays c until a later confirm
\* replaces it or an AnalysisRequest carrying c is dispatched: under every
\* interleaving of the reader with the main thread, c is not cleared by an
\* error trigger that started on a chunk read before the confirm.
C20_Claim ==
    [][ last_command # <<>> /\ last_command' # last_command =>
            \/ ExecuteBegins
            \/ /\ last_command' = <<>>
               /\ analysis_log # <<>>
               /\ Last(analysis_log).command = last_command ]_vars

\* ------------------------------------------------------------ typed commands
\* the Return key's write reached the session
ReturnStep ==
    /\ main_pc = "idle"
    /\ pty_in' \in {Append(pty_in, <<LF>>), Append(pty_in, <<CR, LF>>)}

RECURSIVE TypedLine(_)
\* the characters typed since the last write that was not a character key
TypedLine(w) ==
    IF w = <<>> \/ Last(w) # <<"a">> THEN <<>>
    ELSE TypedLine(SubSeq(w, 1, Len(w) - 1)) \o Last(w)

\* C21: a command line sent through the keystroke path, characters followed
\* by Return, becomes LastCommand.
C21_Claim ==
    [][ ReturnStep /\ TypedLine(pty_in) # <<>> => last_command' = TypedLine(pty_in) ]_vars

\* ------------------------------------------------------------- exactly once
RECURSIVE DecodedInOrder(_, _)
\* the chunks of q decoded one after another, oldest first, each once
DecodedInOrder(t, q) ==
    IF q = <<>> THEN t
    ELSE display_loop(DecodedInOrder(t, SubSeq(q, 1, Len(q) - 1)),
                      strip_ansi_codes(Last(q)), 1)

\* what a step may do to the queue and the buffer: the reader appends the
\* chunk it read, the drain takes every chunk and decodes them in order, the
\* clear callback empties the buffer, and nothing else touches either
QueueDiscipline ==
    \/ output_queue' = Append(output_queue, r_output) /\ ReaderStep
            /\ terminal_display' = terminal_display
    \/ DrainStep /\ terminal_display' = DecodedInOrder(terminal_display, output_queue)
    \/ output_queue' = output_queue /\ terminal_display' \in {terminal_display, <<>>}

\* C22: every chunk the reader enqueues is decoded exactly once, in the order
\* read, and eventually: no chunk stays in the queue forever.
C22_Thm == [][QueueDiscipline]_vars /\ (output_queue # <<>> ~> output_queue = <<>>)

\* two chunks were read and both decoded, in order
C22_Witness ==
    /\ Quiet
    /\ output_buffer = << <<"a", "b">>, <<"c", CR, "X">> >>
    /\ terminal_display = <<"a", "b", "c", "X">>

\* ------------------------------------------------------- the bounded window
\* the reader's steps of lines 737 and 738
TrimCheckStep == r_pc = "trim" /\ r_pc' # "trim"
TrimSliceStep == r_pc = "slice" /\ r_pc' # "slice"
TrimStoreStep == r_pc = "store" /\ r_pc' # "store"

\* the last n entries of a window that holds more than n, in their order
LastEntries(w, n) == [i \in 1..n |-> w[Len(w) - n + i]]

\* C23: the history window is bounded: whenever the reader has completed an
\* iteration it holds at most 100 entries; an append that makes it exceed 100
\* makes the reader cut it, and the cut leaves exactly its last 50 entries in
\* their order, the newest among them.  (A confirm that empties the window
\* after the reader has measured it leaves the reader nothing to cut.)
C23_Thm ==
    [][ /\ (r_pc' = "read" => Len(output_buffer') <= HistMax)
        /\ (TrimCheckStep => (r_pc' = "slice" <=> Len(output_buffer) > HistMax))
        /\ (TrimSliceStep /\ output_buffer # <<>> =>
              /\ Len(output_buffer) = HistMax + 1
              /\ r_slice' = LastEntries(output_buffer, HistKeep)
              /\ Last(r_slice') = r_output)
        /\ (TrimStoreStep => output_buffer' = r_slice /\ Len(r_slice) \in {0, HistKeep}) ]_vars

\* the window overflowed, was cut to 50, and one more chunk was appended
C23_Witness ==
    /\ r_pc = "read"
    /\ Len(output_buffer) = HistKeep + 1
    /\ output_buffer[1] = Line(HistMax - HistKeep + 2)
    /\ n_reads = HistMax + 2

\* ------------------------------------------------------ clear in stream order
\* no chunk is in the reader's hands, in the queue or behind a pending clear
Settled ==
    /\ r_pc = "read"
    /\ output_queue = <<>>
    /\ after_queue = <<>>
    /\ main_pc = "idle"

\* the positions at which a recognized clear-screen sequence ends in s
ClearEnds(s) ==
    { e \in 1..Len(s) : \E seq \in ClearSeqs :
          e >= Len(seq) /\ SubSeq(s, e - Len(seq) + 1, e) = seq }

\* what the stream holds after its most recent clear-screen sequence
AfterLastClear(s) ==
    LET e == CHOOSE x \in ClearEnds(s) : \A y \in ClearEnds(s) : y <= x
    IN SubSeq(s, e + 1, Len(s))

\* C24: clear-screen takes effect in stream order: once every chunk read so
\* far is drained, the terminal buffer holds exactly the decoded text that
\* followed the most recent clear-screen sequence of the stream.
C24_Claim ==
    Settled /\ ClearEnds(StreamRead) # {}
        => terminal_display = drain(<<>>, <<AfterLastClear(StreamRead)>>)

\* ------------------------------------------------------------ line endings
\* a chunk in which every '\r' is immediately followed by '\n'
CrLfOnly(chunk) ==
    /\ OnlyChars(chunk, PlainChars \cup {"d", CR})
    /\ \A i \in 1..Len(chunk) :
          chunk[i] = CR => i < Len(chunk) /\ chunk[i + 1] = LF

\* the text with each "\r\n" read as one line break
WithoutCr(text) == SelectSeq(text, LAMBDA ch : ch # CR)

\* C25: within one chunk a '\r' immediately followed by '\n' produces exactly
\* one line break and erases nothing: a drain of such chunks appends their
\* text with one '\n' for each "\r\n", so "ab\r\ncd" leaves the lines "ab"
\* and "cd".
C25_Thm ==
    [][ DrainStep /\ (\A k \in 1..Len(output_queue) : CrLfOnly(output_queue[k]))
            => terminal_display' = terminal_display \o WithoutCr(Join(output_queue)) ]_vars

C25_Witness ==
    /\ Quiet
    /\ output_buffer = << <<"a", "b", CR, LF, "c", "d">> >>
    /\ terminal_display = <<"a", "b", LF, "c", "d">>

\* ------------------------------------------------------------- no retries
\* the backend calls a step starts: each thread makes one call
NewSuggestCalls == suggest_threads' \ suggest_threads
NewAnalysisCalls == ts_threads' \ ts_threads

\* an accepted submitQuery, and the dispatch of an AnalysisRequest
AskAccepted == next_req' # next_req
RequestDispatched == analysis_log' # analysis_log

\* C26: no backend call is retried: a step starts a suggestion call only when
\* it is an accepted ask_ai, and then exactly one; it starts an analysis call
\* only when it dispatches an AnalysisRequest, and then exactly one, for that
\* request; every other step, the failure of a call among them, starts none.
C26_Thm ==
    [][ /\ Cardinality(NewSuggestCalls) = (IF AskAccepted THEN 1 ELSE 0)
        /\ Cardinality(NewAnalysisCalls) = (IF RequestDispatched THEN 1 ELSE 0)
        /\ (AskAccepted => main_pc = "idle" /\ NewAnalysisCalls = {}
                             /\ \A t \in NewSuggestCalls : t.query = Last(command_history'))
        /\ (RequestDispatched => /\ r_pc = "spawn"
                                 /\ NewSuggestCalls = {}
                                 /\ analysis_log' = Append(analysis_log, AnalysisRequest)
                                 /\ NewAnalysisCalls = {AnalysisRequest}) ]_vars

\* a suggestion call and an analysis call were made, the suggestion call
\* failed, its error was shown, and no call is in flight
C26_Witness ==
    /\ ai_chat = "suggestion_error"
    /\ next_req = 2
    /\ Len(analysis_log) = 1
    /\ suggest_threads = {}
    /\ ts_threads = {}
    /\ after_queue = <<>>
    /\ pty_feed = <<>>
    /\ r_pc = "read"

\* ------------------------------------------------------------ failed spawn
\* PtyProcess.spawn raised in start_terminal
SpawnFailed == error_boxes > 0

\* C27: when spawning the shell fails the failure is shown once and the
\* program goes on without a session: there is no process, no reader thread
\* and no drain timer, nothing is ever written, read, queued or displayed,
\* and no write raises: every handler runs to its end (a confirm still
\* records the command and clears the proposal).
C27_Thm ==
    /\ [](SpawnFailed =>
            /\ error_boxes = 1
            /\ process = "None"
            /\ r_pc = "none"
            /\ ~drain_timer
            /\ ~WriteRaises
            /\ pty_in = <<>>
            /\ n_reads = 0
            /\ output_queue = <<>>
            /\ terminal_display = <<>>)
    /\ [][ SpawnFailed /\ main_pc = "execute" /\ main_pc' # "execute"
             => main_pc' = "idle" /\ pending_command' = None /\ pty_in' = pty_in ]_vars

\* the spawn failed, and later a suggestion was confirmed: nothing was sent
C27_Witness ==
    /\ SpawnFailed
    /\ last_command = <<"l", "s">>
    /\ pending_command = None
    /\ main_pc = "idle"
    /\ pty_in = <<>>

\* -------------------------------------------------- controls and their proposal
\* C28: the controls created for a suggestion act only on that suggestion:
\* Execute pressed on a frame writes the command that frame displays (it is
\* what the confirm records as last_command and then writes), and Cancel
\* pressed on a frame leaves a pending proposal that is not that frame's.
C28_Claim ==
    [][ \A f \in frames \ frames' :
          /\ (ExecuteBegins => last_command' = f.command)
          /\ (CancelStep /\ Truthy(pending_command) /\ pending_command[1] # f.command
                => pending_command' = pending_command) ]_vars

\* ------------------------------------------------------------- at most once
\* the pending proposal has been resolved (or none was ever made)
Resolved == ~Truthy(pending_command)

\* C29: each proposal is written at most once: a confirm's write and a reject
\* both leave no proposal pending; while none is pending no Execute control,
\* of whatever frame is still visible, starts a confirm, writes, or changes
\* last_command or the history window; and only the arrival of a new
\* suggestion, which brings its own controls, makes a proposal pending again.
C29_Thm ==
    [][ /\ (CancelStep \/ ExecuteEnds => pending_command' = None)
        /\ (Resolved /\ main_pc = "idle" =>
              /\ main_pc' = "idle"
              /\ pty_in' = pty_in
              /\ last_command' = last_command
              /\ output_buffer' = output_buffer)
        /\ (Resolved /\ ~Resolved' => frames' \ frames # {}) ]_vars

\* one proposal was written once, nothing is pending, and the controls of
\* another suggestion are still visible
C29_Witness ==
    /\ Len(pty_in) = 1
    /\ pending_command = None
    /\ frames # {}
    /\ main_pc = "idle"
    /\ last_command # <<>>

\* ------------------------------------------------- the payload under the race
\* the lines the shell had printed before the proposal "ls" was confirmed
LinesBefore == {Line(i) : i \in 1..HistMax}

\* C30: the recent-output payload of an AnalysisRequest for command c holds
\* only chunks read after the confirm of c emptied the history window: under
\* every interleaving of the reader with the main thread, a request for "ls"
\* carries none of the lines read before "ls" was confirmed.
C30_Claim ==
    [][ RequestDispatched /\ Last(analysis_log').command = <<"l", "s">>
            => \A old \in LinesBefore : ~Contains(Last(analysis_log').error_output, old) ]_vars

\* the confirm has emptied the window while the reader holds the slice it cut
\* from the window of before the confirm, and is about to store it
TrimRaceState ==
    /\ r_pc = "store"
    /\ r_slice # <<>>
    /\ output_buffer = <<>>
    /\ last_command = <<"l", "s">>
    /\ main_pc = "idle"

\* ------------------------------------------------------- the unwritten command
\* C31: LastCommand is set to c, and c is reported as executed, only if c was
\* written to the session: a confirm pressed when no session process exists,
\* or when the write will raise, keeps last_command and reports nothing.
C31_Claim ==
    [][ ExecuteBegins /\ process # "running"
            => last_command' = last_command /\ ai_chat' = ai_chat ]_vars

\* --------------------------------------------------------- rejected queries
\* the queries a submission can carry: the entry's text, stripped, not empty
AcceptableQueries == {Strip(text) : text \in EntryTexts} \ {<<>>}

\* C32: a submission that is not accepted changes nothing: a backend call is
\* started, or the query history or its index changed by a submission, only
\* for a non-empty stripped query with a backend client configured; a step
\* that starts no call is not a submission's and leaves the query history as
\* it was, and no submission touches pending_command or last_command.
C32_Thm ==
    [][ /\ (NewSuggestCalls # {} \/ command_history' # command_history =>
              /\ groq_client
              /\ AskAccepted
              /\ \E query \in AcceptableQueries :
                    NewSuggestCalls = {[req |-> next_req + 1, query |-> query]})
        /\ (AskAccepted \/ (history_index' # history_index /\ history_index' = -1
                               /\ history_index # 0) =>
              /\ groq_client
              /\ pending_command' = pending_command
              /\ last_command' = last_command) ]_vars

\* a query was accepted, then the client was lost: later submissions, empty
\* or not, are not accepted
C32_Witness ==
    /\ ~groq_client
    /\ ai_chat = "key_failed"
    /\ command_history = << <<"q">> >>
    /\ next_req = 1
    /\ history_index = 0

\* ------------------------------------------------------------ query history
\* the entry lookup of lines 555 and 563, command_history[-(history_index + 1)],
\* as a position counted from the oldest query
LookupPosition == Len(command_history) - history_index

\* C33: after any sequence of ask_ai, history_up and history_down the index
\* satisfies -1 <= history_index <= len(command_history) - 1, every lookup
\* history_up and history_down make is in range, an accepted ask_ai resets
\* the index to -1, and command_history never holds the same query in two
\* consecutive positions.
C33_Thm ==
    /\ [](/\ -1 <= history_index
          /\ history_index <= Len(command_history) - 1
          /\ \A i \in 1..(Len(command_history) - 1) :
                command_history[i] # command_history[i + 1])
    /\ [][ /\ (history_index' # history_index /\ history_index' # -1
                 => LookupPosition' \in 1..Len(command_history'))
           /\ (AskAccepted => history_index' = -1) ]_vars

\* two different queries were submitted and Up was pressed twice: the entry
\* shows the oldest query
C33_Witness ==
    /\ Len(command_history) = 2
    /\ history_index = 1
    /\ LookupPosition = 1

====
